---- MODULE Spec2Model ----
(***************************************************************************)
(* Model of the speaker-audio interview assistant (main.py) and of its     *)
(* variant (test.py): the three button handlers of InterviewApp, the       *)
(* background ai_pipeline thread, the monitor-device lookup and the        *)
(* normalisation of the recorded buffer into the 16-bit wave file.         *)
(*                                                                         *)
(* Audio samples are exact rationals data[i] / den (float32 rounding is    *)
(* not modelled); a buffer is a numpy array: a shape and its flat C-order  *)
(* data.  sd.rec returns the buffer at once and the device fills it until  *)
(* sd.stop(): the buffer's content is chosen when stop_recording reads it. *)
(* A handler runs atomically on the UI thread; the steps of the pipeline   *)
(* threads interleave with the handlers.  An exception that leaves a       *)
(* handler reaches the event loop (variable uncaught) and ends the         *)
(* application.                                                            *)
(***************************************************************************)
EXTENDS Integers, Sequences, FiniteSets, TLC

VARIABLES
    response_label,   \* text of self.response_label, as a tuple of its parts
    start_disabled,   \* self.start_btn.disabled
    stop_disabled,    \* self.stop_btn.disabled
    gen_disabled,     \* self.gen_btn.disabled
    recording,        \* self.recording: a numpy array or None
    monitor_device,   \* self.monitor_device: a device index, -1 while unset
    devices,          \* what sd.query_devices() returns
    wav,              \* the file answer.wav
    threads,          \* the ai_pipeline threads: position and locals of each
    uncaught,         \* exception that left a handler ("none": none did)
    fp_invalid,       \* numpy reported an invalid value (x / 0) in a division
    in_progress,      \* history: a successful Start not yet followed by a completed Stop
    last_stop,        \* history: the buffer (as an array) that the latest Stop press ended
    last_failure      \* history: the handler whose latest step failed ("none": it did not)

vars == <<response_label, start_disabled, stop_disabled, gen_disabled, recording,
          monitor_device, devices, wav, threads, uncaught, fp_invalid,
          in_progress, last_stop, last_failure>>

----------------------------------------------------------------------------
(* Bounds *)

\* frames per recorded buffer in the application runs
NFrames == 1
\* samples range over -MaxAmp..MaxAmp
MaxAmp == 1
\* frames and amplitude of the buffers the normalisation is checked on
NormFrames == 2
NormAmp == 2
\* pipeline threads that can be alive together
MaxThreads == 2
\* devices listed in the application runs, and in the device-lookup runs
MainMaxDevices == 1
MaxDevices == 3

(* Program constants *)

SAMPLE_RATE == 44100
Int16Scale == 32767
Int16Modulus == 65536

----------------------------------------------------------------------------
(* numpy arrays *)

None == [isNone |-> TRUE, shape |-> <<>>, den |-> 1, data |-> <<>>]

Array(shape, den, data) == [isNone |-> FALSE, shape |-> shape, den |-> den, data |-> data]

Abs(x) == IF x < 0 THEN -x ELSE x

RECURSIVE MaxAbs(_)
\* np.max(np.abs(a)), as a numerator over the array's den
MaxAbs(data) ==
    IF data = <<>> THEN 0
    ELSE LET rest == MaxAbs(Tail(data))
         IN  IF Abs(Head(data)) > rest THEN Abs(Head(data)) ELSE rest

\* np.mean(a, axis=1) of an (n, 2) array: frame i is (l + r) / 2
MeanAxis1(a) ==
    Array(<<a.shape[1]>>, 2 * a.den,
          [i \in 1..a.shape[1] |-> a.data[2 * i - 1] + a.data[2 * i]])

\* a C cast of a real to an integer: the fraction is dropped (num / d, d > 0)
TruncDiv(num, d) == IF num >= 0 THEN num \div d ELSE -((-num) \div d)

\* np.int16 of an integer value: 16 bits, two's complement
Int16(v) == ((v + 32768) % Int16Modulus) - 32768

\* the (frames, channels) float32 array sd.rec returns, not yet filled
EmptyBuffer(frames, channels) ==
    Array(<<frames, channels>>, 1, [i \in 1..(frames * channels) |-> 0])

\* the contents array a can hold once the device has filled it: samples in -amp..amp
Filled(a, amp) == { [a EXCEPT !.data = d] : d \in [1..Len(a.data) -> (-amp)..amp] }

----------------------------------------------------------------------------
(* The wave file *)

NoFile == [exists |-> FALSE, valid |-> FALSE, rate |-> 0, shape |-> <<>>, samples |-> <<>>]

\* what scipy's write leaves when it fails after opening (truncating) the file
TruncatedFile == [exists |-> TRUE, valid |-> FALSE, rate |-> 0, shape |-> <<>>, samples |-> <<>>]

WaveFile(rate, shape, samples) ==
    [exists |-> TRUE, valid |-> TRUE, rate |-> rate, shape |-> shape, samples |-> samples]

WriteOutcomes == {"ok", "open_failed", "truncated"}

\* write(AUDIO_FILE, rate, a): the file afterwards
Written(outcome, old, rate, shape, samples) ==
    CASE outcome = "ok" -> WaveFile(rate, shape, samples)
      [] outcome = "open_failed" -> old
      [] OTHER -> TruncatedFile

----------------------------------------------------------------------------
(* Audio devices: a name (a sequence of characters) and its input channels *)

Device(name, chans) == [name |-> name, max_input_channels |-> chans]

DeviceNames ==
    { <<"M", "o", "n", "i", "t", "o", "r">>,
      <<"a", ".", "m", "o", "n", "i", "t", "o", "r">>,
      <<"M", "O", "N", "I", "T", "O", "R">>,
      <<"m", "o", "n", "i", "t">>,
      <<"M", "i", "c">> }

DeviceKinds == { Device(n, c) : n \in DeviceNames, c \in {0, 2} }

\* The device lists of at most n devices
DeviceLists(n) == UNION { [1..k -> DeviceKinds] : k \in 0..n }

\* str.lower() of one character
LowerChar(c) ==
    CASE c = "M" -> "m"
      [] c = "O" -> "o"
      [] c = "N" -> "n"
      [] c = "I" -> "i"
      [] c = "T" -> "t"
      [] c = "R" -> "r"
      [] OTHER -> c

\* str.lower()
Lower(s) == [i \in 1..Len(s) |-> LowerChar(s[i])]

\* pat in s
Contains(s, pat) ==
    \E k \in 0..(Len(s) - Len(pat)) :
        \A j \in 1..Len(pat) : s[k + j] = pat[j]

MonitorWord == <<"m", "o", "n", "i", "t", "o", "r">>

\* the condition without .lower()
IsMonitor_CaseSensitive(device) ==
    Contains(device.name, MonitorWord) /\ device.max_input_channels > 0

\* the condition of the loop of get_monitor_device
IsMonitor(device) ==
    Contains(Lower(device.name), MonitorWord) /\ device.max_input_channels > 0

RECURSIVE FirstMonitorFrom(_, _)
\* the loop of get_monitor_device from (1-based) position i: the 0-based
\* index it returns, or -1 when it runs off the list
FirstMonitorFrom(devs, i) ==
    IF i > Len(devs) THEN -1
    ELSE IF IsMonitor(devs[i]) THEN i - 1
    ELSE FirstMonitorFrom(devs, i + 1)

NoMonitorMessage == "No PulseAudio monitor device found. Install pavucontrol."

\* get_monitor_device: the index it returns, or the exception it raises
get_monitor_device(devs) ==
    LET i == FirstMonitorFrom(devs, 1)
    IN  IF i >= 0 THEN [raised |-> FALSE, value |-> i, message |-> ""]
        ELSE [raised |-> TRUE, value |-> -1, message |-> NoMonitorMessage]

----------------------------------------------------------------------------
(* The response label *)

LabelInitial == <<"Press Start to record Speaker Audio">>
LabelRecording == <<"Recording Speaker Audio...">>
LabelSaved == <<"Speaker Recording Saved", "Click Generate.">>
LabelProcessing == <<"Processing...">>
LabelStartError(message) == <<"Error:", message>>
LabelPipelineError(message) == <<"Error", message>>
LabelAnswer(transcript, feedback) ==
    <<"Interviewer Said:", transcript, "Suggested Answer:", feedback>>

IsErrorLabel(l) == l[1] \in {"Error:", "Error"}

----------------------------------------------------------------------------
(* main.py: start_recording *)

RecOutcomes == {"ok", "PortAudioError"}

\* start_recording whose except clause forgets the buttons
StartButtons_NoExceptReset(failed) ==
    [start_disabled |-> TRUE, stop_disabled |-> FALSE, gen_disabled |-> TRUE]

\* the buttons start_recording leaves: the assignments of the try block, and
\* the except clause's on top of them when the lookup or sd.rec raised
StartButtons(failed) ==
    [start_disabled |-> ~failed, stop_disabled |-> failed, gen_disabled |-> TRUE]

\* start_recording with a buffer of the given number of frames: the four
\* assignments, the lookup, sd.rec, and the except clause
StartRecording(frames) ==
    /\ uncaught = "none"
    /\ ~start_disabled
    /\ \E rec \in RecOutcomes :
        LET found == get_monitor_device(devices)
            failed == found.raised \/ rec # "ok"
            message == IF found.raised THEN found.message ELSE rec
        IN  /\ monitor_device' = IF found.raised THEN monitor_device ELSE found.value
            /\ recording' = IF failed THEN recording ELSE EmptyBuffer(frames, 2)
            /\ response_label' = IF failed THEN LabelStartError(message) ELSE LabelRecording
            /\ start_disabled' = StartButtons(failed).start_disabled
            /\ stop_disabled' = StartButtons(failed).stop_disabled
            /\ gen_disabled' = StartButtons(failed).gen_disabled
            /\ in_progress' = IF failed THEN in_progress ELSE TRUE
            /\ last_failure' = IF failed THEN "start_recording" ELSE "none"
    /\ UNCHANGED <<devices, wav, threads, uncaught, fp_invalid, last_stop>>

start_recording == StartRecording(NFrames)

----------------------------------------------------------------------------
(* main.py: stop_recording *)

\* "Convert stereo to mono": the mean over axis 1 of a two-dimensional array
ToMono(a) == IF Len(a.shape) = 2 THEN MeanAxis1(a) ELSE a

RECURSIVE MaxOf(_)
\* np.max(a) of a non-empty array
MaxOf(data) ==
    IF Len(data) = 1 THEN Head(data)
    ELSE LET rest == MaxOf(Tail(data))
         IN  IF Head(data) > rest THEN Head(data) ELSE rest

\* the normalisation with np.max(a) for np.max(np.abs(a))
Normalize_SignedPeak(a) ==
    LET max_val == MaxOf(a.data)
    IN  IF max_val > 0
        THEN [i \in 1..Len(a.data) |-> Int16(TruncDiv(a.data[i] * Int16Scale, max_val))]
        ELSE [i \in 1..Len(a.data) |-> Int16(TruncDiv(a.data[i], a.den))]

\* "Normalize safely": the int16 samples of a one-dimensional array
Normalize(a) ==
    LET max_val == MaxAbs(a.data)
    IN  IF max_val > 0
        THEN [i \in 1..Len(a.data) |-> Int16(TruncDiv(a.data[i] * Int16Scale, max_val))]
        ELSE [i \in 1..Len(a.data) |-> Int16(TruncDiv(a.data[i], a.den))]

\* a thread that has not finished reading answer.wav sees it overwritten
MarkRaced(th) ==
    [t \in DOMAIN th |->
        IF th[t].pc = "open" THEN [th[t] EXCEPT !.raced = "before_read"]
        ELSE IF th[t].pc = "record" THEN [th[t] EXCEPT !.raced = "during_read"]
        ELSE th[t]]

\* stop_recording on a buffer the device filled with samples in -amp..amp
StopRecording(amp) ==
    /\ uncaught = "none"
    /\ ~stop_disabled
    /\ IF recording.isNone
       THEN UNCHANGED <<response_label, start_disabled, stop_disabled, gen_disabled,
                        recording, wav, threads, uncaught, in_progress, last_stop,
                        last_failure>>
       ELSE \E outcome \in WriteOutcomes, captured \in Filled(recording, amp) :
            LET mono == ToMono(captured)
                audio_int16 == Normalize(mono)
                ok == outcome = "ok"
            IN  /\ last_stop' = captured
                /\ recording' = mono
                /\ wav' = Written(outcome, wav, SAMPLE_RATE, mono.shape, audio_int16)
                /\ threads' = IF outcome = "open_failed" THEN threads ELSE MarkRaced(threads)
                /\ uncaught' = IF ok THEN "none" ELSE "OSError"
                /\ last_failure' = IF ok THEN "none" ELSE "stop_recording"
                /\ response_label' = IF ok THEN LabelSaved ELSE response_label
                /\ stop_disabled' = IF ok THEN TRUE ELSE stop_disabled
                /\ gen_disabled' = IF ok THEN FALSE ELSE gen_disabled
                /\ start_disabled' = IF ok THEN FALSE ELSE start_disabled
                /\ in_progress' = IF ok THEN FALSE ELSE in_progress
    /\ UNCHANGED <<monitor_device, devices, fp_invalid>>

stop_recording == StopRecording(MaxAmp)

----------------------------------------------------------------------------
(* main.py: generate_response and the ai_pipeline thread *)

Threads == 1..MaxThreads

IdleThread == [pc |-> "idle", raced |-> "none", asr |-> "none", transcript |-> "", payload |-> ""]

Alive(t) == threads[t].pc # "idle"

generate_response ==
    /\ uncaught = "none"
    /\ ~gen_disabled
    /\ \E t \in Threads :
        /\ ~Alive(t)
        /\ \A u \in Threads : u < t => Alive(u)
        /\ threads' = [threads EXCEPT ![t] = [IdleThread EXCEPT !.pc = "open"]]
    /\ response_label' = LabelProcessing
    /\ gen_disabled' = TRUE
    /\ last_failure' = "none"
    /\ UNCHANGED <<start_disabled, stop_disabled, recording, monitor_device, devices,
                   wav, uncaught, fp_invalid, in_progress, last_stop>>

\* ai_pipeline's except and finally clauses: thread t ends with exception e
PipelineFails(t, e) ==
    /\ response_label' = LabelPipelineError(e)
    /\ gen_disabled' = FALSE
    /\ threads' = [threads EXCEPT ![t] = IdleThread]
    /\ last_failure' = "ai_pipeline"

\* thread t goes on inside the try block
PipelineGoesOn(t, next) ==
    /\ threads' = [threads EXCEPT ![t] = next]
    /\ last_failure' = "none"
    /\ UNCHANGED <<response_label, gen_disabled>>

\* transcribe, "with sr.AudioFile(AUDIO_FILE) as source": the file is opened
transcribe_open(t) ==
    /\ uncaught = "none"
    /\ threads[t].pc = "open"
    /\ IF ~wav.exists THEN PipelineFails(t, "FileNotFoundError")
       ELSE IF ~wav.valid THEN PipelineFails(t, "ValueError")
       ELSE PipelineGoesOn(t, [threads[t] EXCEPT !.pc = "record"])
    /\ UNCHANGED <<start_disabled, stop_disabled, recording, monitor_device, devices,
                   wav, uncaught, fp_invalid, in_progress, last_stop>>

\* transcribe, recognizer.record(source): the samples are read; a file that
\* was rewritten meanwhile is read whole, or the read fails
transcribe_record(t) ==
    /\ uncaught = "none"
    /\ threads[t].pc = "record"
    /\ \E torn \in BOOLEAN :
        /\ torn => threads[t].raced = "during_read"
        /\ IF torn THEN PipelineFails(t, "EOFError")
           ELSE PipelineGoesOn(t, [threads[t] EXCEPT !.pc = "recognize"])
    /\ UNCHANGED <<start_disabled, stop_disabled, recording, monitor_device, devices,
                   wav, uncaught, fp_invalid, in_progress, last_stop>>

AsrOutcomes == {"ok", "UnknownValueError", "RequestError"}

\* transcribe without its "except sr.RequestError" clause
transcribe_result_RequestErrorRaises(outcome) ==
    CASE outcome = "ok" -> [raised |-> FALSE, value |-> "recognized text"]
      [] outcome = "UnknownValueError" -> [raised |-> FALSE, value |-> "Could not understand audio."]
      [] OTHER -> [raised |-> TRUE, value |-> outcome]

\* transcribe, the inner try: what it returns for an outcome of recognize_google
transcribe_result(outcome) ==
    CASE outcome = "ok" -> [raised |-> FALSE, value |-> "recognized text"]
      [] outcome = "UnknownValueError" -> [raised |-> FALSE, value |-> "Could not understand audio."]
      [] outcome = "RequestError" -> [raised |-> FALSE, value |-> "Google API error."]
      [] OTHER -> [raised |-> TRUE, value |-> outcome]

\* transcribe returns into ai_pipeline, which posts the payload of call_llama
transcribe_recognize(t) ==
    /\ uncaught = "none"
    /\ threads[t].pc = "recognize"
    /\ \E outcome \in AsrOutcomes :
        LET r == transcribe_result(outcome)
        IN  IF r.raised THEN PipelineFails(t, r.value)
            ELSE PipelineGoesOn(t, [threads[t] EXCEPT !.pc = "post", !.asr = outcome,
                                                      !.transcript = r.value,
                                                      !.payload = r.value])
    /\ UNCHANGED <<start_disabled, stop_disabled, recording, monitor_device, devices,
                   wav, uncaught, fp_invalid, in_progress, last_stop>>

LlamaOutcomes == {"ok", "ConnectionError", "HTTPError"}

\* call_llama's response, then the label and the finally clause of ai_pipeline
call_llama(t) ==
    /\ uncaught = "none"
    /\ threads[t].pc = "post"
    /\ \E outcome \in LlamaOutcomes :
        IF outcome = "ok"
        THEN /\ response_label' = LabelAnswer(threads[t].transcript, "generated answer")
             /\ gen_disabled' = FALSE
             /\ threads' = [threads EXCEPT ![t] = IdleThread]
             /\ last_failure' = "none"
        ELSE PipelineFails(t, outcome)
    /\ UNCHANGED <<start_disabled, stop_disabled, recording, monitor_device, devices,
                   wav, uncaught, fp_invalid, in_progress, last_stop>>

ai_pipeline ==
    \E t \in Threads :
        \/ transcribe_open(t)
        \/ transcribe_record(t)
        \/ transcribe_recognize(t)
        \/ call_llama(t)

----------------------------------------------------------------------------
(* main.py: the application *)

\* the state build() leaves, with some list of audio devices and no wave file
Init ==
    /\ response_label = LabelInitial
    /\ start_disabled = FALSE
    /\ stop_disabled = TRUE
    /\ gen_disabled = TRUE
    /\ recording = None
    /\ monitor_device = -1
    /\ devices \in DeviceLists(MainMaxDevices)
    /\ wav = NoFile
    /\ threads = [t \in Threads |-> IdleThread]
    /\ uncaught = "none"
    /\ fp_invalid = FALSE
    /\ in_progress = FALSE
    /\ last_stop = None
    /\ last_failure = "none"

Next == start_recording \/ stop_recording \/ generate_response \/ ai_pipeline

Spec == Init /\ [][Next]_vars

----------------------------------------------------------------------------
(* main.py: the normalisation alone, on the larger buffers *)

MonitorName == <<"M", "o", "n", "i", "t", "o", "r">>

\* the state a successful Start leaves, with a buffer of NormFrames frames
InitNorm ==
    /\ response_label = LabelRecording
    /\ start_disabled = TRUE
    /\ stop_disabled = FALSE
    /\ gen_disabled = TRUE
    /\ recording = EmptyBuffer(NormFrames, 2)
    /\ monitor_device = 0
    /\ devices = <<Device(MonitorName, 2)>>
    /\ wav = NoFile
    /\ threads = [t \in Threads |-> IdleThread]
    /\ uncaught = "none"
    /\ fp_invalid = FALSE
    /\ in_progress = TRUE
    /\ last_stop = None
    /\ last_failure = "none"

NextNorm == StopRecording(NormAmp)

SpecNorm == InitNorm /\ [][NextNorm]_vars

----------------------------------------------------------------------------
(* main.py: the device lookup alone, on the longer device lists *)

\* the state build() leaves, or the one a completed recording leaves (made
\* on a device of an earlier list), with any list of at most MaxDevices devices
InitMonitor ==
    /\ devices \in DeviceLists(MaxDevices)
    /\ start_disabled = FALSE
    /\ stop_disabled = TRUE
    /\ threads = [t \in Threads |-> IdleThread]
    /\ uncaught = "none"
    /\ fp_invalid = FALSE
    /\ in_progress = FALSE
    /\ last_failure = "none"
    /\ \/ /\ response_label = LabelInitial
          /\ monitor_device = -1
          /\ gen_disabled = TRUE
          /\ recording = None
          /\ wav = NoFile
          /\ last_stop = None
       \/ /\ response_label = LabelSaved
          /\ monitor_device \in 0..(MaxDevices - 1)
          /\ gen_disabled = FALSE
          /\ recording = ToMono(EmptyBuffer(NFrames, 2))
          /\ wav = WaveFile(SAMPLE_RATE, <<NFrames>>, Normalize(ToMono(EmptyBuffer(NFrames, 2))))
          /\ last_stop = EmptyBuffer(NFrames, 2)

NextMonitor == StartRecording(NFrames)

SpecMonitor == InitMonitor /\ [][NextMonitor]_vars

----------------------------------------------------------------------------
(* test.py: start_recording and stop_recording *)

TestLabelInitial == <<"Press Start to record your answer">>
TestLabelRecording == <<"Recording...">>
TestLabelSaved == <<"Recording saved.", "Tap Generate.">>

\* test.py start_recording: no try block, the default input device, one channel
test_start_recording ==
    /\ uncaught = "none"
    /\ ~start_disabled
    /\ \E rec \in RecOutcomes :
        /\ response_label' = TestLabelRecording
        /\ start_disabled' = TRUE
        /\ stop_disabled' = FALSE
        /\ gen_disabled' = TRUE
        /\ recording' = IF rec = "ok" THEN EmptyBuffer(NormFrames, 1) ELSE recording
        /\ uncaught' = IF rec = "ok" THEN "none" ELSE rec
        /\ in_progress' = IF rec = "ok" THEN TRUE ELSE in_progress
        /\ last_failure' = IF rec = "ok" THEN "none" ELSE "start_recording"
    /\ UNCHANGED <<monitor_device, devices, wav, threads, fp_invalid, last_stop>>

\* what np.int16 makes of a NaN: the cast is undefined, the value the platform's
NanAsInt16 == {0, -32768}

\* test.py: np.int16(a / np.max(np.abs(a)) * 32767); nan is the int16 a NaN becomes
TestNormalize(a, nan) ==
    LET max_val == MaxAbs(a.data)
    IN  IF max_val = 0
        THEN [i \in 1..Len(a.data) |-> nan]
        ELSE [i \in 1..Len(a.data) |-> Int16(TruncDiv(a.data[i] * Int16Scale, max_val))]

\* test.py stop_recording: no None check, no zero-peak check, no try block
test_stop_recording ==
    /\ uncaught = "none"
    /\ ~stop_disabled
    /\ IF recording.isNone
       THEN /\ uncaught' = "TypeError"
            /\ last_failure' = "stop_recording"
            /\ UNCHANGED <<response_label, start_disabled, stop_disabled, gen_disabled,
                           recording, wav, fp_invalid, in_progress, last_stop>>
       ELSE \E outcome \in WriteOutcomes, captured \in Filled(recording, NormAmp),
               nan \in NanAsInt16 :
            LET audio_int16 == TestNormalize(captured, nan)
                ok == outcome = "ok"
            IN  /\ last_stop' = captured
                /\ recording' = captured
                /\ fp_invalid' = (MaxAbs(captured.data) = 0)
                /\ wav' = Written(outcome, wav, SAMPLE_RATE, captured.shape, audio_int16)
                /\ uncaught' = IF ok THEN "none" ELSE "OSError"
                /\ last_failure' = IF ok THEN "none" ELSE "stop_recording"
                /\ response_label' = IF ok THEN TestLabelSaved ELSE response_label
                /\ stop_disabled' = IF ok THEN TRUE ELSE stop_disabled
                /\ gen_disabled' = IF ok THEN FALSE ELSE gen_disabled
                /\ start_disabled' = IF ok THEN FALSE ELSE start_disabled
                /\ in_progress' = IF ok THEN FALSE ELSE in_progress
    /\ UNCHANGED <<monitor_device, devices, threads>>

\* the state test.py's build() leaves
InitTest ==
    /\ response_label = TestLabelInitial
    /\ start_disabled = FALSE
    /\ stop_disabled = TRUE
    /\ gen_disabled = TRUE
    /\ recording = None
    /\ monitor_device = -1
    /\ devices = <<>>
    /\ wav = NoFile
    /\ threads = [t \in Threads |-> IdleThread]
    /\ uncaught = "none"
    /\ fp_invalid = FALSE
    /\ in_progress = FALSE
    /\ last_stop = None
    /\ last_failure = "none"

NextTest == test_start_recording \/ test_stop_recording

SpecTest == InitTest /\ [][NextTest]_vars

----------------------------------------------------------------------------
(* The claims *)

\* C1: in main.py no exception leaves start_recording, stop_recording or
\* ai_pipeline, and a handler whose step failed leaves an error message in the
\* response label.
C1_FailuresCaughtAndShown ==
    /\ uncaught = "none"
    /\ last_failure # "none" => IsErrorLabel(response_label)

\* C2: whenever answer.wav exists, it is the mono 16-bit file, at SAMPLE_RATE, of
\* the normalised mono mix of the buffer that the most recent Stop press ended.
C2_WavIsLatestStoppedRecording ==
    wav.exists =>
        /\ ~last_stop.isNone
        /\ wav = WaveFile(SAMPLE_RATE, <<last_stop.shape[1]>>, Normalize(ToMono(last_stop)))

\* C3: at most one ai_pipeline thread is alive at any moment.
C3_AtMostOnePipelineThread == Cardinality({t \in Threads : Alive(t)}) <= 1

\* C4: stop_recording (here test.py's) never divides by a zero peak: numpy
\* reports no invalid division, and once Stop completes on a buffer whose
\* samples are all zero the wave file holds all-zero samples.
C4_NoZeroPeakDivision ==
    /\ ~fp_invalid
    /\ (/\ ~last_stop.isNone
        /\ ~in_progress
        /\ uncaught = "none"
        /\ MaxAbs(last_stop.data) = 0)
       => /\ wav.valid
          /\ \A i \in 1..Len(wav.samples) : wav.samples[i] = 0

C5_Sentinel(outcome) ==
    CASE outcome = "UnknownValueError" -> "Could not understand audio."
      [] outcome = "RequestError" -> "Google API error."
      [] OTHER -> "recognized text"

\* C5: the step in which recognize_google answers, whether with a text, with
\* UnknownValueError or with RequestError, never takes ai_pipeline's error
\* branch: the thread goes on to the LLM call, and the string it posts is the
\* recognised text or the sentinel of that failure.
C5_TranscribeYieldsString ==
    [][\A t \in Threads :
          (threads[t].pc = "recognize" /\ threads'[t] # threads[t]) =>
              /\ threads'[t].pc = "post"
              /\ last_failure' = "none"
              /\ response_label' = response_label
              /\ threads'[t].asr \in AsrOutcomes
              /\ threads'[t].transcript = C5_Sentinel(threads'[t].asr)
              /\ threads'[t].payload = threads'[t].transcript]_vars

\* C5 witness: a thread is posting the sentinel of a RequestError to the LLM.
C5_Witness ==
    \E t \in Threads :
        /\ threads[t].pc = "post"
        /\ threads[t].asr = "RequestError"
        /\ threads[t].payload = "Google API error."

\* twice the mono mix of frame i of the stereo buffer the latest Stop ended
C6_Mono2(i) == last_stop.data[2 * i - 1] + last_stop.data[2 * i]

C6_Peak2 == MaxAbs([i \in 1..last_stop.shape[1] |-> C6_Mono2(i)])

\* C6: when Stop has written the file of a stereo buffer whose mono mix has
\* peak m > 0, every written sample w is mono / m * 32767 with its fraction
\* dropped (|w| * m <= |mono| * 32767 < (|w| + 1) * m, and w has the sign of
\* mono), lies in -32767..32767, and is +-32767 where |mono| = m.
C6_NormalizedSamples ==
    (wav.valid /\ C6_Peak2 > 0) =>
        /\ Len(wav.samples) = last_stop.shape[1]
        /\ \A i \in 1..Len(wav.samples) :
            LET w == wav.samples[i]
                x == C6_Mono2(i)
            IN  /\ Abs(w) * C6_Peak2 <= Abs(x) * 32767
                /\ Abs(x) * 32767 < (Abs(w) + 1) * C6_Peak2
                /\ x >= 0 => w >= 0
                /\ x <= 0 => w <= 0
                /\ w >= -32767 /\ w <= 32767
                /\ Abs(x) = C6_Peak2 => Abs(w) = 32767

\* C6 witness: a written file with a sample at -32767 (a negative peak) and a
\* positive sample whose quotient had a fraction to drop.
C6_Witness ==
    /\ wav.valid
    /\ C6_Peak2 > 0
    /\ \E i, j \in 1..Len(wav.samples) :
        /\ wav.samples[i] = -32767
        /\ wav.samples[j] > 0
        /\ wav.samples[j] * C6_Peak2 < C6_Mono2(j) * 32767

\* C7: no ai_pipeline thread has answer.wav overwritten between the Generate
\* press that started it and the end of its read of the file.
C7_NoWriteBeforeEndOfRead == \A t \in Threads : threads[t].raced = "none"

C8_MonitorUpper == <<"M", "O", "N", "I", "T", "O", "R">>

\* the name holds m-o-n-i-t-o-r, each letter in either case, and the device
\* has an input channel
C8_Qualifies(device) ==
    /\ device.max_input_channels >= 1
    /\ \E k \in 0..(Len(device.name) - 7) :
        \A j \in 1..7 : device.name[k + j] \in {MonitorWord[j], C8_MonitorUpper[j]}

C8_Qualifying == {i \in 1..Len(devices) : C8_Qualifies(devices[i])}

\* C8: get_monitor_device returns the lowest (0-based) index of a device whose
\* name contains "monitor" in any case and that has an input channel, and
\* raises when there is none; start_recording then leaves self.recording as it
\* was, starts no recording and shows the error.
C8_LowestMonitorOrError ==
    /\ [](LET r == get_monitor_device(devices)
          IN  IF C8_Qualifying = {}
              THEN r.raised /\ ~in_progress /\ stop_disabled
              ELSE /\ ~r.raised
                   /\ r.value + 1 \in C8_Qualifying
                   /\ \A i \in C8_Qualifying : r.value + 1 <= i
                   /\ in_progress => monitor_device = r.value)
    /\ [][C8_Qualifying = {} =>
              /\ recording' = recording
              /\ monitor_device' = monitor_device
              /\ response_label' = LabelStartError(NoMonitorMessage)
              /\ ~start_disabled']_vars

\* C8 witness: Start failed for want of a monitor device although the list holds
\* a device named "monitor" without input channels, and the earlier recording
\* is still in self.recording.
C8_Witness ==
    /\ response_label = LabelStartError(NoMonitorMessage)
    /\ ~recording.isNone
    /\ \E i \in 1..Len(devices) :
        /\ Contains(Lower(devices[i].name), MonitorWord)
        /\ devices[i].max_input_channels = 0

\* C9: while a recording is in progress (from a successful Start until the
\* next Stop completes) the Generate button is disabled.
C9_GenerateDisabledWhileRecording == in_progress => gen_disabled

\* C10: between handlers exactly one of Start and Stop is enabled, Stop is
\* enabled exactly while a recording begun by a successful Start has no
\* completed Stop yet, and Stop is never enabled with self.recording None.
C10_ExactlyOneOfStartStop ==
    /\ start_disabled # stop_disabled
    /\ ~stop_disabled <=> in_progress
    /\ ~stop_disabled => ~recording.isNone

\* C10 witness: a Start failed after an earlier recording was completed; Start
\* is enabled again and Stop is not.
C10_Witness ==
    /\ last_failure = "start_recording"
    /\ wav.exists
    /\ ~start_disabled
    /\ stop_disabled

====
